---- MODULE Spec2Model ----
(***************************************************************************)
(* fs-id: FileID, the GetID trait with its platform backends, and          *)
(* compare_ids, modelled as a sequential program running against an        *)
(* operating system that owns a file system and a descriptor table.        *)
(*                                                                         *)
(* The file system is fixed during a run: the crate issues point queries   *)
(* and has no operation that changes it.  A path either names an object    *)
(* or does not exist, an object may refuse to be opened or to be queried,  *)
(* and every object carries the (device, inode) pair the OS reports.       *)
(***************************************************************************)
EXTENDS Integers, Sequences, FiniteSets, TLC

(***************************************************************************)
(* The environment: objects, paths, OS error codes.                        *)
(***************************************************************************)

\* The caller holds at most this many open std::fs::File handles at once.
MaxHandles == 1

NoObj == "none"
NoPath == "-"

Objects == {"o1", "o2", "o3", "o4"}

\* "A" and "B" are hard links to one object; "C" is another object of the
\* same device; "D" has the inode number of "A" on another device; "E" does
\* not exist; the object of "G" can be opened but the OS fails its metadata
\* query.
Paths == {"A", "B", "C", "D", "E", "G"}

\* The paths the caller opens handles on: one that can be queried, one that
\* cannot.
HandlePaths == {"A", "G"}

PathObj(p) ==
    CASE p = "A" -> "o1"
      [] p = "B" -> "o1"
      [] p = "C" -> "o2"
      [] p = "D" -> "o3"
      [] p = "G" -> "o4"
      [] OTHER   -> NoObj

\* What the OS reports for an object: its device and its inode number.
\* Distinct objects have distinct pairs, and no real object has (0, 0).
ObjDev(o) == CASE o = "o1" -> 1 [] o = "o2" -> 1 [] o = "o3" -> 2 [] OTHER -> 2
ObjIno(o) == CASE o = "o1" -> 1 [] o = "o2" -> 2 [] o = "o3" -> 1 [] OTHER -> 2

\* OS error codes, as io::Error::last_os_error() and File::open report them.
NoErr == 0
ENOENT == 2
EIO == 5
EBADF == 9
EMFILE == 24

\* The error of opening a path for reading, NoErr when the open succeeds.
OpenErr(p) == IF PathObj(p) = NoObj THEN ENOENT ELSE NoErr

\* The error of a metadata query on an object, NoErr when it succeeds.
StatErr(o) == IF o = "o4" THEN EIO ELSE NoErr

\* The descriptor table has room for the caller's handles and for the one
\* handle a path query opens, so no open of the program meets EMFILE.
FDs == 1 .. (MaxHandles + 1)

\* Backends that lib.rs selects for `mod sys`, and every backend file.
BuiltBackends == {"unix", "windows"}
AllBackends == {"unix", "windows", "wasi", "wasm"}

VARIABLES
    backend,    \* the platform backend compiled in
    fdtable,    \* descriptor -> object it is open on, NoObj when closed
    owned,      \* descriptors of the File handles the caller holds
    errno,      \* the thread's last OS error
    alive,      \* FALSE once a panic has ended the program
    last,       \* the most recent finished call
    prev        \* the call finished before it, when the caller kept it

vars == <<backend, fdtable, owned, errno, alive, last, prev>>

(***************************************************************************)
(* FileID (lib.rs): a pair, compared structurally.                         *)
(***************************************************************************)

\* mem::zeroed(): the buffer before the OS fills it.
Zeroed == <<0, 0>>

FileID(dev, ino) == <<dev, ino>>

storage_id(id) == id[1]

\* `self.0.1 as u128`: zero extension keeps the value.
internal_file_id(id) == id[2]

FileIDEqInoOnly(a, b) == a[2] = b[2]

\* #[derive(PartialEq, Eq)] on the tuple struct: field by field.
FileIDEq(a, b) == a[1] = b[1] /\ a[2] = b[2]

(***************************************************************************)
(* io::Result values.                                                      *)
(***************************************************************************)

Ok(id) == [tag |-> "Ok", id |-> id, err |-> NoErr, eq |-> FALSE]
OkBool(b) == [tag |-> "Ok", id |-> Zeroed, err |-> NoErr, eq |-> b]
Err(e) == [tag |-> "Err", id |-> Zeroed, err |-> e, eq |-> FALSE]
Panic == [tag |-> "Panic", id |-> Zeroed, err |-> NoErr, eq |-> FALSE]
NoRes == [tag |-> "-", id |-> Zeroed, err |-> NoErr, eq |-> FALSE]

(***************************************************************************)
(* The OS.  A machine state m is [tab, eno]: the descriptor table and the  *)
(* thread's errno.  Each metadata query returns its status, the buffer it  *)
(* leaves and the errno after it.                                          *)
(***************************************************************************)

Machine(tab, eno) == [tab |-> tab, eno |-> eno]

\* The error of querying descriptor fd, NoErr on success.
QueryErr(m, fd) ==
    IF m.tab[fd] = NoObj THEN EBADF ELSE StatErr(m.tab[fd])

\* libc::fstat64: 0 on success, -1 with errno set on failure.
fstat64(m, fd) ==
    IF QueryErr(m, fd) = NoErr
    THEN [ret |-> 0, buf |-> <<ObjDev(m.tab[fd]), ObjIno(m.tab[fd])>>,
          eno |-> m.eno]
    ELSE [ret |-> -1, buf |-> Zeroed, eno |-> QueryErr(m, fd)]

\* The file id as the bytes of FILE_ID_INFO.FileId.Identifier, low byte
\* first (every Windows target is little-endian); two bytes stand for the
\* sixteen of the structure.
IdBytes == 2
Byte == 256

ToBytes(n) == [i \in 1 .. IdBytes |-> (n \div (Byte ^ (i - 1))) % Byte]

RECURSIVE FromBytesFrom(_, _)
FromBytesFrom(bs, i) ==
    IF i > Len(bs) THEN 0 ELSE bs[i] + Byte * FromBytesFrom(bs, i + 1)

\* u128::from_ne_bytes on a little-endian target.
from_ne_bytes(bs) == FromBytesFrom(bs, 1)

\* GetFileInformationByHandleEx with FileIdInfo: nonzero on success, 0 with
\* the last error set on failure.
GetFileInformationByHandleEx(m, h) ==
    IF QueryErr(m, h) = NoErr
    THEN [ret |-> 1,
          info |-> [VolumeSerialNumber |-> ObjDev(m.tab[h]),
                    Identifier |-> ToBytes(ObjIno(m.tab[h]))],
          eno |-> m.eno]
    ELSE [ret |-> 0,
          info |-> [VolumeSerialNumber |-> 0, Identifier |-> ToBytes(0)],
          eno |-> QueryErr(m, h)]

\* The raw WASI import: returns the error number itself and does not touch
\* the thread's errno.
fd_filestat_get(m, fd) ==
    IF QueryErr(m, fd) = NoErr
    THEN [ret |-> 0, buf |-> <<ObjDev(m.tab[fd]), ObjIno(m.tab[fd])>>,
          eno |-> m.eno]
    ELSE [ret |-> QueryErr(m, fd), buf |-> Zeroed, eno |-> m.eno]

\* std::fs::File::open: the lowest free descriptor, or the OS error.
FreeFds(m) == {fd \in FDs : m.tab[fd] = NoObj}

LowestFree(m) == CHOOSE fd \in FreeFds(m) : \A g \in FreeFds(m) : fd <= g

File_open(m, p) ==
    IF OpenErr(p) # NoErr
    THEN [fd |-> 0, err |-> OpenErr(p), m |-> Machine(m.tab, OpenErr(p))]
    ELSE IF FreeFds(m) = {}
    THEN [fd |-> 0, err |-> EMFILE, m |-> Machine(m.tab, EMFILE)]
    ELSE [fd |-> LowestFree(m), err |-> NoErr,
          m |-> Machine([m.tab EXCEPT ![LowestFree(m)] = PathObj(p)], m.eno)]

\* Dropping a File closes its descriptor.
File_drop(m, fd) == Machine([m.tab EXCEPT ![fd] = NoObj], m.eno)

(***************************************************************************)
(* GetID for a native handle, one definition per backend file.  Each       *)
(* yields the io::Result and the machine after the query.                  *)
(***************************************************************************)

Out(res, m, trace) == [res |-> res, m |-> m, trace |-> trace]

\* io::Error::last_os_error(): the errno the query left.
last_os_error(m) == m.eno

get_id_unix_fd(m, fd) ==
    LET r == fstat64(m, fd)
        m2 == Machine(m.tab, r.eno)
    IN  IF r.ret = 0 THEN Out(Ok(FileID(r.buf[1], fd)), m2, <<>>)
        ELSE Out(Err(last_os_error(m2)), m2, <<>>)

\* unix.rs: fstat64 on the raw descriptor; (st_dev, st_ino) on status 0.
get_id_unix(m, fd) ==
    LET r == fstat64(m, fd)
        m2 == Machine(m.tab, r.eno)
    IN  IF r.ret = 0 THEN Out(Ok(FileID(r.buf[1], r.buf[2])), m2, <<>>)
        ELSE Out(Err(last_os_error(m2)), m2, <<>>)

\* windows.rs: GetFileInformationByHandleEx on the raw handle; status 0 is
\* the failure.
get_id_windows(m, h) ==
    LET r == GetFileInformationByHandleEx(m, h)
        m2 == Machine(m.tab, r.eno)
    IN  IF r.ret = 0 THEN Out(Err(last_os_error(m2)), m2, <<>>)
        ELSE Out(Ok(FileID(r.info.VolumeSerialNumber,
                           from_ne_bytes(r.info.Identifier))), m2, <<>>)

\* wasi.rs: fd_filestat_get on the raw descriptor; (dev, ino) on status 0.
get_id_wasi(m, fd) ==
    LET r == fd_filestat_get(m, fd)
        m2 == Machine(m.tab, r.eno)
    IN  IF r.ret = 0 THEN Out(Ok(FileID(r.buf[1], r.buf[2])), m2, <<>>)
        ELSE Out(Err(last_os_error(m2)), m2, <<>>)

\* wasm.rs: any status but 0 reaches todo!().
get_id_wasm(m, fd) ==
    LET r == fd_filestat_get(m, fd)
        m2 == Machine(m.tab, r.eno)
    IN  IF r.ret = 0 THEN Out(Ok(FileID(r.buf[1], r.buf[2])), m2, <<>>)
        ELSE Out(Panic, m2, <<>>)

\* `mod sys`: the backend the build selected.
sys_get_id(m, fd) ==
    CASE backend = "unix"    -> get_id_unix(m, fd)
      [] backend = "windows" -> get_id_windows(m, fd)
      [] backend = "wasi"    -> get_id_wasi(m, fd)
      [] OTHER               -> get_id_wasm(m, fd)

(***************************************************************************)
(* Inputs: the implementers of GetID.                                      *)
(***************************************************************************)

\* Path, str and OsStr (impl_get_id!): a path to open.
PathIn(p) == [kind |-> "path", path |-> p, fd |-> 0, id |-> Zeroed]

\* A borrowed handle-bearing value (T: AsRawFd / AsRawHandle).
HandleIn(h) == [kind |-> "handle", path |-> NoPath, fd |-> h, id |-> Zeroed]

\* A FileID, which implements GetID itself.
IdIn(v) == [kind |-> "id", path |-> NoPath, fd |-> 0, id |-> v]

\* A system call of a call's trace: which call, for which operand.
Event(sys, s) == <<sys, s>>

\* impl GetID for FileID: Ok(self.to_owned())
get_id_FileID(m, v) == Out(Ok(v), m, <<>>)

get_id_borrowed_close(m, h, s) ==
    LET q == sys_get_id(m, h) IN
    Out(q.res, File_drop(q.m, h), <<Event("stat", s), Event("close", s)>>)

\* impl<T: AsRawFd> GetID for T on a borrowed handle: as_raw_fd(), then the
\* backend's query.
get_id_borrowed(m, h, s) ==
    LET q == sys_get_id(m, h) IN Out(q.res, q.m, <<Event("stat", s)>>)

get_id_path_leak(m, p, s) ==
    LET o == File_open(m, p) IN
    IF o.err # NoErr
    THEN Out(Err(o.err), o.m, <<Event("open", s)>>)
    ELSE LET q == sys_get_id(o.m, o.fd) IN
         Out(q.res, q.m, <<Event("open", s), Event("stat", s)>>)

get_id_path_default(m, p, s) ==
    LET o == File_open(m, p) IN
    IF o.err # NoErr
    THEN Out(Ok(Zeroed), o.m, <<Event("open", s)>>)
    ELSE LET q == sys_get_id(o.m, o.fd) IN
         Out(q.res, File_drop(q.m, o.fd),
             <<Event("open", s), Event("stat", s), Event("close", s)>>)

\* impl_get_id!(Path, str, OsStr): `File::open(self)?.get_id()`; the
\* temporary File is dropped before get_id returns (or while it unwinds).
get_id_path(m, p, s) ==
    LET o == File_open(m, p) IN
    IF o.err # NoErr
    THEN Out(Err(o.err), o.m, <<Event("open", s)>>)
    ELSE LET q == sys_get_id(o.m, o.fd) IN
         Out(q.res, File_drop(q.m, o.fd),
             <<Event("open", s), Event("stat", s), Event("close", s)>>)

\* GetID::get_id, dispatched on the type of the input; s is the operand's
\* position in the caller.
get_id(m, a, s) ==
    CASE a.kind = "path"   -> get_id_path(m, a.path, s)
      [] a.kind = "handle" -> get_id_borrowed(m, a.fd, s)
      [] OTHER             -> get_id_FileID(m, a.id)

\* FileID::new(file) == file.get_id()
new(m, a) == get_id(m, a, 1)

compare_ids_eager(m, a, b) ==
    LET r1 == get_id(m, a, 1)
        r2 == get_id(r1.m, b, 2)
    IN  IF r1.res.tag # "Ok" THEN Out(r1.res, r2.m, r1.trace \o r2.trace)
        ELSE IF r2.res.tag # "Ok" THEN Out(r2.res, r2.m, r1.trace \o r2.trace)
        ELSE Out(OkBool(FileIDEq(r1.res.id, r2.res.id)), r2.m,
                 r1.trace \o r2.trace)

compare_ids_lenient(m, a, b) ==
    LET r1 == get_id(m, a, 1) IN
    IF r1.res.tag # "Ok" THEN r1
    ELSE LET r2 == get_id(r1.m, b, 2) IN
         IF r2.res.tag # "Ok" THEN Out(OkBool(FALSE), r2.m, r1.trace \o r2.trace)
         ELSE Out(OkBool(FileIDEq(r1.res.id, r2.res.id)), r2.m,
                  r1.trace \o r2.trace)

\* compare_ids: `Ok(id1.get_id()? == id2.get_id()?)`, operands left to
\* right, each `?` returning its error at once.
compare_ids(m, a, b) ==
    LET r1 == get_id(m, a, 1) IN
    IF r1.res.tag # "Ok" THEN r1
    ELSE LET r2 == get_id(r1.m, b, 2) IN
         IF r2.res.tag # "Ok" THEN Out(r2.res, r2.m, r1.trace \o r2.trace)
         ELSE Out(OkBool(FileIDEq(r1.res.id, r2.res.id)), r2.m,
                  r1.trace \o r2.trace)

(***************************************************************************)
(* The caller: what it holds, what it can pass, what it has observed.      *)
(***************************************************************************)

\* The FileIDs the caller has in hand: those its kept calls returned.
KnownIds ==
    {e.res.id : e \in {e \in {prev, last} : e.op = "new" /\ e.res.tag = "Ok"}}

\* What the caller can pass: any path, a handle it holds, a FileID it has.
Inputs ==
    {PathIn(p) : p \in Paths} \cup {HandleIn(h) : h \in owned}
        \cup {IdIn(v) : v \in KnownIds}

\* The object an input refers to when the call starts.
Ref(a) ==
    CASE a.kind = "path"   -> PathObj(a.path)
      [] a.kind = "handle" -> fdtable[a.fd]
      [] OTHER             -> NoObj

NoEntry == [op |-> "-", args |-> <<>>, refs |-> <<>>, res |-> NoRes,
            trace |-> <<>>]

Entry(o, as, out) ==
    [op |-> o, args |-> as, refs |-> [i \in 1 .. Len(as) |-> Ref(as[i])],
     res |-> out.res, trace |-> out.trace]

\* The caller keeps its previous result beside the new one when the two can
\* be set against each other: two identities, or the comparisons of one
\* pair of inputs in the two orders.
Comparable(e, o, as) ==
    /\ e.op = o
    /\ o = "compare" => as = <<e.args[2], e.args[1]>>

Now == Machine(fdtable, errno)

(***************************************************************************)
(* Init                                                                    *)
(***************************************************************************)

InitState ==
    /\ fdtable = [fd \in FDs |-> NoObj]
    /\ owned = {}
    /\ errno = NoErr
    /\ alive = TRUE
    /\ last = NoEntry
    /\ prev = NoEntry

Init == backend \in BuiltBackends /\ InitState

InitAll == backend \in AllBackends /\ InitState

(***************************************************************************)
(* Actions                                                                 *)
(***************************************************************************)

\* The caller opens a path and keeps the File (as in the example of
\* FileID::new).
CallerOpen(p) ==
    /\ alive
    /\ Cardinality(owned) < MaxHandles
    /\ p \in HandlePaths
    /\ fdtable' = File_open(Now, p).m.tab
    /\ owned' = owned \cup {File_open(Now, p).fd}
    /\ UNCHANGED <<backend, errno, alive, last, prev>>

\* The caller drops a File it holds.
CallerDrop(h) ==
    /\ alive
    /\ h \in owned
    /\ fdtable' = File_drop(Now, h).tab
    /\ owned' = owned \ {h}
    /\ UNCHANGED <<backend, errno, alive, last, prev>>

\* A call of the crate runs to its end: the machine is as the call leaves
\* it, and the caller has seen the result.  A panic ends the program.
Call(o, as, out) ==
    /\ alive
    /\ fdtable' = out.m.tab
    /\ errno' = out.m.eno
    /\ alive' = (out.res.tag # "Panic")
    /\ last' = Entry(o, as, out)
    /\ prev' = IF Comparable(last, o, as) THEN last ELSE NoEntry
    /\ UNCHANGED <<backend, owned>>

CallNew(a) == Call("new", <<a>>, new(Now, a))

CallCompare(a, b) == Call("compare", <<a, b>>, compare_ids(Now, a, b))

Next ==
    \/ \E p \in Paths : CallerOpen(p)
    \/ \E h \in FDs : CallerDrop(h)
    \/ \E a \in Inputs : CallNew(a)
    \/ \E a \in Inputs, b \in Inputs : CallCompare(a, b)

\* The program as lib.rs builds it (unix.rs or windows.rs).
Spec == Init /\ [][Next]_vars

\* The program built on any of the four backend files.
SpecAll == InitAll /\ [][Next]_vars

(***************************************************************************)
(* What the environment makes of an input, read off the file system alone. *)
(***************************************************************************)

Hist == {prev, last}

IsNewOk(e) == e.op = "new" /\ e.res.tag = "Ok"

\* The error an input's identity query must meet: the open's for a path
\* that cannot be opened, else the metadata query's on the object.
InputErr(a, o) ==
    CASE a.kind = "path" ->
             IF OpenErr(a.path) # NoErr THEN OpenErr(a.path) ELSE StatErr(o)
      [] a.kind = "handle" -> StatErr(o)
      [] OTHER -> NoErr

\* The first error met going through a call's inputs from left to right.
FirstErr(e) ==
    IF InputErr(e.args[1], e.refs[1]) # NoErr
    THEN InputErr(e.args[1], e.refs[1])
    ELSE InputErr(e.args[2], e.refs[2])

HasEvent(e, sys, s) == \E i \in 1 .. Len(e.trace) : e.trace[i] = Event(sys, s)

SameFields(a, b) ==
    /\ storage_id(a) = storage_id(b)
    /\ internal_file_id(a) = internal_file_id(b)

\* Both inputs are paths that name objects, and the objects are two.
TwoObjects(e) ==
    /\ \A i \in 1 .. Len(e.args) : e.args[i].kind = "path" /\ e.refs[i] # NoObj
    /\ e.op = "compare" => e.refs[1] # e.refs[2]

(***************************************************************************)
(* C1                                                                      *)
(***************************************************************************)

\* C1: two FileIDs are equal exactly when storage_id() and
\* internal_file_id() both agree, for the FileIDs FileID::new returned and
\* for the FileIDs compare_ids was given.
C1_EqualIffBothFields ==
    /\ \A e1 \in Hist, e2 \in Hist :
          IsNewOk(e1) /\ IsNewOk(e2) =>
              (FileIDEq(e1.res.id, e2.res.id)
                  <=> SameFields(e1.res.id, e2.res.id))
    /\ (last.op = "compare" /\ last.args[1].kind = "id"
            /\ last.args[2].kind = "id") =>
          last.res = OkBool(SameFields(last.args[1].id, last.args[2].id))

\* compare_ids was given two FileIDs with one internal id and two storage
\* ids, and said they differ.
C1_Witness ==
    /\ last.op = "compare"
    /\ last.args[1].kind = "id" /\ last.args[2].kind = "id"
    /\ internal_file_id(last.args[1].id) = internal_file_id(last.args[2].id)
    /\ storage_id(last.args[1].id) # storage_id(last.args[2].id)
    /\ last.res = OkBool(FALSE)

(***************************************************************************)
(* C2                                                                      *)
(***************************************************************************)

\* C2: two successful calls of FileID::new on inputs that refer to one
\* object return equal FileIDs.
C2_SameObjectSameId ==
    (IsNewOk(prev) /\ IsNewOk(last) /\ prev.refs[1] # NoObj
        /\ prev.refs[1] = last.refs[1]) =>
        FileIDEq(prev.res.id, last.res.id)

\* FileID::new succeeded on "A" and then on its hard link "B", with a
\* handle of the caller open meanwhile.
C2_Witness ==
    /\ IsNewOk(prev) /\ prev.args = <<PathIn("A")>>
    /\ IsNewOk(last) /\ last.args = <<PathIn("B")>>
    /\ owned # {}

(***************************************************************************)
(* C3                                                                      *)
(***************************************************************************)

\* C3 as stated: on two paths that name two distinct objects, compare_ids
\* returns Ok(false) in every execution.
C3_AlwaysOkFalse ==
    (last.op = "compare" /\ TwoObjects(last)) => last.res = OkBool(FALSE)

\* C3 amended: the FileIDs of two distinct objects differ in a field, and
\* compare_ids on their paths never returns Ok(true): it returns Ok(false)
\* when both identities are obtained, and the error met otherwise.
C3_DistinctNeverEqual ==
    /\ (IsNewOk(prev) /\ IsNewOk(last) /\ TwoObjects(prev) /\ TwoObjects(last)
            /\ prev.refs[1] # last.refs[1]) =>
          ~SameFields(prev.res.id, last.res.id)
    /\ (last.op = "compare" /\ TwoObjects(last)) =>
          last.res = IF FirstErr(last) = NoErr THEN OkBool(FALSE)
                     ELSE Err(FirstErr(last))

\* compare_ids on "A" and "D": one inode number, two devices.
C3_Witness ==
    /\ last.op = "compare"
    /\ last.args = <<PathIn("A"), PathIn("D")>>
    /\ last.res = OkBool(FALSE)

(***************************************************************************)
(* C4                                                                      *)
(***************************************************************************)

\* C4: FileID::new on a path whose open fails returns Err with the open's
\* OS error, issues no metadata query and never returns Ok.
C4_OpenFailurePropagates ==
    (last.op = "new" /\ last.args[1].kind = "path"
        /\ OpenErr(last.args[1].path) # NoErr) =>
        /\ last.res = Err(OpenErr(last.args[1].path))
        /\ ~HasEvent(last, "stat", 1)

\* FileID::new on the path that does not exist has returned.
C4_Witness ==
    /\ last.op = "new"
    /\ last.args = <<PathIn("E")>>
    /\ last.res.tag = "Err"
    /\ last.trace = <<Event("open", 1)>>

(***************************************************************************)
(* C5                                                                      *)
(***************************************************************************)

\* C5: compare_ids obtains id1's identity first; when that fails it returns
\* that error and no system call is made for id2; every error compare_ids
\* returns is the first one met from left to right.
C5_LeftFirstShortCircuit ==
    last.op = "compare" =>
        /\ InputErr(last.args[1], last.refs[1]) # NoErr =>
              /\ last.res = Err(InputErr(last.args[1], last.refs[1]))
              /\ \A i \in 1 .. Len(last.trace) : last.trace[i][2] = 1
        /\ last.res.tag = "Err" => last.res.err = FirstErr(last)
        /\ \A i \in 1 .. Len(last.trace), j \in 1 .. Len(last.trace) :
              i < j => last.trace[i][2] <= last.trace[j][2]

\* compare_ids whose first input does not exist and whose second fails its
\* metadata query.
C5_Witness ==
    /\ last.op = "compare"
    /\ last.args = <<PathIn("E"), PathIn("G")>>
    /\ last.res = Err(ENOENT)

(***************************************************************************)
(* C6                                                                      *)
(***************************************************************************)

\* C6: when a call has returned, every handle it opened is closed: the open
\* descriptors are the caller's own, and each successful open of the call
\* was followed by its close.
C6_NoHandleEscapes ==
    /\ \A fd \in FDs : fdtable[fd] # NoObj => fd \in owned
    /\ \A s \in 1 .. Len(last.args) :
          (last.args[s].kind = "path" /\ OpenErr(last.args[s].path) = NoErr
              /\ HasEvent(last, "open", s)) =>
              HasEvent(last, "close", s)

\* A path query whose metadata query failed has returned, and so has one
\* that succeeded.
C6_Witness ==
    /\ last.op = "compare"
    /\ last.args = <<PathIn("A"), PathIn("G")>>
    /\ last.res = Err(EIO)
    /\ HasEvent(last, "close", 1) /\ HasEvent(last, "close", 2)

(***************************************************************************)
(* C7                                                                      *)
(***************************************************************************)

\* C7: FileID::new on a path and FileID::new on a handle opened on that
\* path return equal FileIDs.
C7_PathEqualsHandle ==
    \A e1 \in Hist, e2 \in Hist :
        (IsNewOk(e1) /\ IsNewOk(e2) /\ e1.args[1].kind = "path"
            /\ e2.args[1].kind = "handle" /\ e1.refs[1] = e2.refs[1]) =>
            FileIDEq(e1.res.id, e2.res.id)

\* FileID::new on "A", then on the caller's handle opened on "A".
C7_Witness ==
    /\ IsNewOk(prev) /\ prev.args = <<PathIn("A")>>
    /\ IsNewOk(last) /\ last.args[1].kind = "handle"
    /\ last.refs[1] = PathObj("A")

(***************************************************************************)
(* C8                                                                      *)
(***************************************************************************)

\* The kept pair is compare_ids(a, b) and compare_ids(b, a) on the same
\* objects.
SwappedPair ==
    /\ prev.op = "compare" /\ last.op = "compare"
    /\ last.args = <<prev.args[2], prev.args[1]>>
    /\ last.refs = <<prev.refs[2], prev.refs[1]>>

\* C8 as stated: compare_ids(a, b) and compare_ids(b, a) yield the same
\* result, errors included.
C8_SameResult == SwappedPair => prev.res = last.res

\* C8 amended: compare_ids(a, b) and compare_ids(b, a) both succeed with
\* the same boolean or both fail; when both inputs fail, each order returns
\* the error of its own first input.
C8_SameBooleanOrBothFail ==
    SwappedPair =>
        /\ prev.res.tag = last.res.tag
        /\ prev.res.eq = last.res.eq
        /\ prev.res.tag = "Err" =>
              /\ prev.res.err = FirstErr(prev)
              /\ last.res.err = FirstErr(last)

\* compare_ids on a path and on a path that fails, in the two orders.
C8_Witness ==
    /\ SwappedPair
    /\ prev.args = <<PathIn("A"), PathIn("E")>>
    /\ prev.res.tag = "Err" /\ last.res.tag = "Err"

(***************************************************************************)
(* C9                                                                      *)
(***************************************************************************)

\* C9: in every backend, a metadata query that fails makes get_id return
\* Err with the query's OS error, and the program goes on.
C9_QueryFailureIsErr ==
    /\ alive
    /\ (last.op = "new" /\ last.args[1].kind # "id"
            /\ HasEvent(last, "stat", 1) /\ StatErr(last.refs[1]) # NoErr) =>
          last.res = Err(StatErr(last.refs[1]))

(***************************************************************************)
(* C10                                                                     *)
(***************************************************************************)

\* C10: a call leaves every handle of the caller open on its object: a step
\* that is not the caller opening or dropping a handle changes none of them.
C10_BorrowedHandleUntouched ==
    [][owned' = owned => \A h \in owned : fdtable'[h] = fdtable[h]]_vars

\* FileID::new on a borrowed handle failed, and the handle is still the
\* caller's and still open on its object.
C10_Witness ==
    /\ last.op = "new"
    /\ last.args[1].kind = "handle"
    /\ last.res.tag = "Err"
    /\ last.args[1].fd \in owned
    /\ fdtable[last.args[1].fd] = last.refs[1]

====
